---- MODULE Spec2Model ----
(***************************************************************************)
(* Merkle inclusion proofs (src/src/proof.rs): generation of a Lemma chain *)
(* from a Tree, validation of a Proof against a claimed root, and the      *)
(* ordering / equality of proofs.                                          *)
(*                                                                         *)
(* Encoding.  Option<X> is a sequence: <<>> is None, <<x>> is Some(x).     *)
(* A digest (Vec<u8>) is a sequence of naturals.  The hash primitive is    *)
(* collision-free: a digest is the (uniquely decodable) encoding of its    *)
(* own pre-image, tagged with the algorithm.                               *)
(***************************************************************************)
EXTENDS Integers, Sequences, FiniteSets, TLC

VARIABLES algorithm, tree, needle, lemma, proof, edit, result, other, ordering

vars == <<algorithm, tree, needle, lemma, proof, edit, result, other, ordering>>

(* ------------------------------ bounds --------------------------------- *)

MaxValue == 1

MaxLeaves == 3

MaxLen == 3

MaxDepth == 1

Values == 0..MaxValue

Algorithms == {0, 1}

None == <<>>

Some(x) == <<x>>

(* ------------------------- digest abstraction -------------------------- *)

hash_empty(alg) == <<2, alg>>

hash_leaf(alg, v) == <<0, alg, v>>

hash_nodes(alg, l, r) == <<1, alg, Len(l)>> \o l \o r

(* -------------------------------- Tree --------------------------------- *)

Empty(alg) ==
    [kind |-> "Empty", hash |-> hash_empty(alg), value |-> None,
     left |-> None, right |-> None]

Leaf(alg, v) ==
    [kind |-> "Leaf", hash |-> hash_leaf(alg, v), value |-> Some(v),
     left |-> None, right |-> None]

Node(alg, l, r) ==
    [kind |-> "Node", hash |-> hash_nodes(alg, l.hash, r.hash), value |-> None,
     left |-> Some(l), right |-> Some(r)]

\* one bottom-up pass: adjacent pairs become Nodes, an odd last node is
\* paired with itself
NextLevel(alg, cur) ==
    [i \in 1..((Len(cur) + 1) \div 2) |->
        Node(alg, cur[2 * i - 1],
             IF 2 * i <= Len(cur) THEN cur[2 * i] ELSE cur[2 * i - 1])]

RECURSIVE Combine(_, _)
Combine(alg, cur) ==
    IF Len(cur) = 1 THEN cur[1] ELSE Combine(alg, NextLevel(alg, cur))

from_vec(alg, values) ==
    IF Len(values) = 0
    THEN Empty(alg)
    ELSE Combine(alg, [i \in 1..Len(values) |-> Leaf(alg, values[i])])

\* every strict binary tree with n leaves whose digests satisfy the data model
RECURSIVE TreesWithLeaves(_, _)
TreesWithLeaves(alg, n) ==
    IF n = 1
    THEN {Leaf(alg, v) : v \in Values}
    ELSE UNION {{Node(alg, l, r) : l \in TreesWithLeaves(alg, k),
                                   r \in TreesWithLeaves(alg, n - k)} :
                k \in 1..(n - 1)}

WellFormedTrees(alg) ==
    {Empty(alg)} \cup UNION {TreesWithLeaves(alg, n) : n \in 1..MaxLeaves}

ValueSeqs == UNION {[1..n -> Values] : n \in 0..MaxLen}

(* ------------------------------- Lemma --------------------------------- *)

Left(h) == [pos |-> 0, hash |-> h]

Right(h) == [pos |-> 1, hash |-> h]

\* variant: a leaf answers for any needle
new_leaf_proof_any(hash, n) ==
    Some([node_hash |-> hash, sibling_hash |-> None, sub_lemma |-> None])

new_leaf_proof(hash, n) ==
    IF hash = n
    THEN Some([node_hash |-> hash, sibling_hash |-> None, sub_lemma |-> None])
    ELSE None

RECURSIVE LemmaNew(_, _)
\* variant: the right subtree is searched before the left one
new_tree_proof_right_first(hash, n, left, right) ==
    LET fromLeft == LemmaNew(left, n)
        fromRight == LemmaNew(right, n)
    IN  IF fromRight # None
        THEN Some([node_hash |-> hash,
                   sibling_hash |-> Some(Left(left.hash)),
                   sub_lemma |-> Some(fromRight[1])])
        ELSE IF fromLeft # None
             THEN Some([node_hash |-> hash,
                        sibling_hash |-> Some(Right(right.hash)),
                        sub_lemma |-> Some(fromLeft[1])])
             ELSE None

\* variant: a level found through the right subtree records no sibling
new_tree_proof_no_sibling(hash, n, left, right) ==
    LET fromLeft == LemmaNew(left, n)
        fromRight == LemmaNew(right, n)
    IN  IF fromLeft # None
        THEN Some([node_hash |-> hash,
                   sibling_hash |-> Some(Right(right.hash)),
                   sub_lemma |-> Some(fromLeft[1])])
        ELSE IF fromRight # None
             THEN Some([node_hash |-> hash,
                        sibling_hash |-> None,
                        sub_lemma |-> Some(fromRight[1])])
             ELSE None

new_tree_proof(hash, n, left, right) ==
    LET fromLeft == LemmaNew(left, n)
        fromRight == LemmaNew(right, n)
        found ==
            IF fromLeft # None
            THEN Some(<<fromLeft[1], Some(Right(right.hash))>>)
            ELSE IF fromRight # None
                 THEN Some(<<fromRight[1], Some(Left(left.hash))>>)
                 ELSE None
    IN  IF found = None
        THEN None
        ELSE Some([node_hash |-> hash,
                   sibling_hash |-> found[1][2],
                   sub_lemma |-> Some(found[1][1])])

LemmaNew(t, n) ==
    CASE t.kind = "Empty" -> None
      [] t.kind = "Leaf" -> new_leaf_proof(t.hash, n)
      [] t.kind = "Node" -> new_tree_proof(t.hash, n, t.left[1], t.right[1])

(* ------------------------------- Proof --------------------------------- *)

ProofNew(algo, root_hash, lem, value) ==
    [algorithm |-> algo, root_hash |-> root_hash, lemma |-> lem, value |-> value]

RECURSIVE validate_lemma(_, _)
\* variant: the sibling is combined on the wrong side
validate_lemma_swapped(alg, lem) ==
    IF lem.sub_lemma = None
    THEN lem.sibling_hash = None
    ELSE LET sub == lem.sub_lemma[1] IN
         IF lem.sibling_hash = None
         THEN FALSE
         ELSE LET sib == lem.sibling_hash[1]
                  combined == IF sib.pos = 0
                              THEN hash_nodes(alg, sub.node_hash, sib.hash)
                              ELSE hash_nodes(alg, sib.hash, sub.node_hash)
              IN  combined = lem.node_hash /\ validate_lemma(alg, sub)

\* variant: the side tag is ignored, either order of combination is accepted
validate_lemma_unordered(alg, lem) ==
    IF lem.sub_lemma = None
    THEN lem.sibling_hash = None
    ELSE LET sub == lem.sub_lemma[1] IN
         IF lem.sibling_hash = None
         THEN FALSE
         ELSE LET sib == lem.sibling_hash[1]
              IN  /\ \/ hash_nodes(alg, sib.hash, sub.node_hash) = lem.node_hash
                     \/ hash_nodes(alg, sub.node_hash, sib.hash) = lem.node_hash
                  /\ validate_lemma(alg, sub)

\* variant: a lemma without sub_lemma is accepted whatever its sibling_hash,
\* and a lemma without sibling_hash passes on to its sub_lemma
validate_lemma_lenient(alg, lem) ==
    IF lem.sub_lemma = None
    THEN TRUE
    ELSE LET sub == lem.sub_lemma[1] IN
         IF lem.sibling_hash = None
         THEN validate_lemma(alg, sub)
         ELSE LET sib == lem.sibling_hash[1]
                  combined == IF sib.pos = 0
                              THEN hash_nodes(alg, sib.hash, sub.node_hash)
                              ELSE hash_nodes(alg, sub.node_hash, sib.hash)
              IN  combined = lem.node_hash /\ validate_lemma(alg, sub)

validate_lemma(alg, lem) ==
    IF lem.sub_lemma = None
    THEN lem.sibling_hash = None
    ELSE LET sub == lem.sub_lemma[1] IN
         IF lem.sibling_hash = None
         THEN FALSE
         ELSE LET sib == lem.sibling_hash[1]
                  combined == IF sib.pos = 0
                              THEN hash_nodes(alg, sib.hash, sub.node_hash)
                              ELSE hash_nodes(alg, sub.node_hash, sib.hash)
              IN  combined = lem.node_hash /\ validate_lemma(alg, sub)

\* variant: the proof's own root_hash is not compared with the claimed root
validate_no_root_hash(p, root_hash) ==
    IF p.lemma.node_hash # root_hash
    THEN FALSE
    ELSE validate_lemma(p.algorithm, p.lemma)

\* variant: the top lemma's node_hash is not compared with the claimed root
validate_no_lemma_root(p, root_hash) ==
    IF p.root_hash # root_hash
    THEN FALSE
    ELSE validate_lemma(p.algorithm, p.lemma)

RECURSIVE TerminalHash(_)
TerminalHash(lem) ==
    IF lem.sub_lemma = None THEN lem.node_hash ELSE TerminalHash(lem.sub_lemma[1])

\* variant: the terminal node_hash must be the leaf digest of the value
validate_checks_value(p, root_hash) ==
    IF p.root_hash # root_hash \/ p.lemma.node_hash # root_hash
    THEN FALSE
    ELSE /\ validate_lemma(p.algorithm, p.lemma)
         /\ TerminalHash(p.lemma) = hash_leaf(p.algorithm, p.value)

validate(p, root_hash) ==
    IF p.root_hash # root_hash \/ p.lemma.node_hash # root_hash
    THEN FALSE
    ELSE validate_lemma(p.algorithm, p.lemma)

\* MerkleTree::gen_proof: the lemma of hash_leaf(value), wrapped with the
\* tree's root digest, the algorithm and the value when the search succeeds
gen_proof(alg, t, value) ==
    LET found == LemmaNew(t, hash_leaf(alg, value))
    IN  IF found = None
        THEN None
        ELSE Some(ProofNew(alg, t.hash, found[1], value))

\* ProofData::into_proof: the data with the algorithm supplied from outside
into_proof(data, alg) ==
    [algorithm |-> alg, root_hash |-> data.root_hash, lemma |-> data.lemma,
     value |-> data.value]

(* ------------------------ equality and ordering ------------------------ *)

Then(first, second) == IF first = "Equal" THEN second ELSE first

IntCmp(a, b) == IF a < b THEN "Less" ELSE IF a > b THEN "Greater" ELSE "Equal"

\* Vec<u8>: element by element, a proper prefix is smaller
RECURSIVE VecCmp(_, _)
VecCmp(a, b) ==
    IF a = <<>>
    THEN (IF b = <<>> THEN "Equal" ELSE "Less")
    ELSE IF b = <<>>
         THEN "Greater"
         ELSE Then(IntCmp(Head(a), Head(b)), VecCmp(Tail(a), Tail(b)))

\* derive(Ord) on Positioned: the variant Left before Right, then the payload
PositionedCmp(s, t) == Then(IntCmp(s.pos, t.pos), VecCmp(s.hash, t.hash))

\* Option<Positioned<Vec<u8>>>: None before Some
SiblingCmp(a, b) ==
    IF a = None
    THEN (IF b = None THEN "Equal" ELSE "Less")
    ELSE IF b = None THEN "Greater" ELSE PositionedCmp(a[1], b[1])

\* derive(Ord) on Lemma: node_hash, sibling_hash, sub_lemma in declaration order
RECURSIVE LemmaCmp(_, _)
LemmaCmp(a, b) ==
    Then(VecCmp(a.node_hash, b.node_hash),
         Then(SiblingCmp(a.sibling_hash, b.sibling_hash),
              IF a.sub_lemma = None
              THEN (IF b.sub_lemma = None THEN "Equal" ELSE "Less")
              ELSE IF b.sub_lemma = None
                   THEN "Greater"
                   ELSE LemmaCmp(a.sub_lemma[1], b.sub_lemma[1])))

\* variant: the value does not take part in the comparison
cmp_without_value(p, q) ==
    Then(VecCmp(p.root_hash, q.root_hash), LemmaCmp(p.lemma, q.lemma))

cmp(p, q) ==
    Then(Then(VecCmp(p.root_hash, q.root_hash), IntCmp(p.value, q.value)),
         LemmaCmp(p.lemma, q.lemma))

eq(p, q) == p.root_hash = q.root_hash /\ p.lemma = q.lemma /\ p.value = q.value

(* ------------------- access to the public fields ----------------------- *)

RECURSIVE Depth(_)
Depth(lem) == IF lem.sub_lemma = None THEN 0 ELSE 1 + Depth(lem.sub_lemma[1])

RECURSIVE LevelAt(_, _)
LevelAt(lem, k) == IF k = 0 THEN lem ELSE LevelAt(lem.sub_lemma[1], k - 1)

RECURSIVE WithNodeHash(_, _, _)
WithNodeHash(lem, k, d) ==
    IF k = 0
    THEN [lem EXCEPT !.node_hash = d]
    ELSE [lem EXCEPT !.sub_lemma = Some(WithNodeHash(lem.sub_lemma[1], k - 1, d))]

RECURSIVE WithSibling(_, _, _)
WithSibling(lem, k, s) ==
    IF k = 0
    THEN [lem EXCEPT !.sibling_hash = Some(s)]
    ELSE [lem EXCEPT !.sub_lemma = Some(WithSibling(lem.sub_lemma[1], k - 1, s))]

Flipped(s) == [s EXCEPT !.pos = 1 - s.pos]

RECURSIVE TreeHashes(_)
TreeHashes(t) ==
    IF t.kind = "Node"
    THEN {t.hash} \cup TreeHashes(t.left[1]) \cup TreeHashes(t.right[1])
    ELSE {t.hash}

\* digests offered to a proof read from outside the program
DataDigests == {hash_leaf(0, 0), hash_nodes(0, hash_leaf(0, 0), hash_leaf(0, 0))}

ClaimedRoots ==
    {tree.hash} \cup DataDigests \cup
    (IF proof = None THEN {} ELSE {proof[1].root_hash})

\* lemma chains read from outside: the two optional fields are independent
RECURSIVE DataLemmas(_)
DataLemmas(k) ==
    {[node_hash |-> n, sibling_hash |-> s, sub_lemma |-> sub] :
        n \in DataDigests,
        s \in {None} \cup {Some(Left(d)) : d \in DataDigests}
                     \cup {Some(Right(d)) : d \in DataDigests},
        sub \in IF k = 0
                THEN {None}
                ELSE {None} \cup {Some(l) : l \in DataLemmas(k - 1)}}

ProofDatas ==
    [root_hash : DataDigests, lemma : DataLemmas(MaxDepth), value : Values]

\* proofs to compare: byte strings with a proper prefix among them
OrdDigests == {<<0>>, <<0, 1>>}

OrdLemmas ==
    {[node_hash |-> n, sibling_hash |-> s, sub_lemma |-> sub] :
        n \in OrdDigests,
        s \in {None, Some(Left(<<1>>)), Some(Right(<<0>>))},
        sub \in {None, Some([node_hash |-> <<0>>, sibling_hash |-> None,
                             sub_lemma |-> None])}}

OrdProofs ==
    [algorithm : Algorithms, root_hash : OrdDigests, lemma : OrdLemmas,
     value : Values]

(* ------------------------------ actions -------------------------------- *)

Init ==
    /\ algorithm \in Algorithms
    /\ tree \in WellFormedTrees(algorithm)
    /\ needle = None
    /\ lemma = None
    /\ proof = None
    /\ edit = None
    /\ result = None
    /\ other = None
    /\ ordering = None

\* a tree is immutable once built: a behaviour follows the proofs of one
\* tree, and a build happens before any search of it
FromVec(alg, values) ==
    /\ needle = None
    /\ algorithm' = alg
    /\ tree' = from_vec(alg, values)
    /\ needle' = None
    /\ lemma' = None
    /\ proof' = None
    /\ edit' = None
    /\ result' = None
    /\ UNCHANGED <<other, ordering>>

LemmaNewStep(n) ==
    /\ needle' = Some(n)
    /\ lemma' = LemmaNew(tree, n)
    /\ proof' = None
    /\ edit' = None
    /\ result' = None
    /\ UNCHANGED <<algorithm, tree, other, ordering>>

GenProof(value) ==
    /\ needle' = Some(hash_leaf(algorithm, value))
    /\ lemma' = LemmaNew(tree, hash_leaf(algorithm, value))
    /\ proof' = gen_proof(algorithm, tree, value)
    /\ edit' = None
    /\ result' = None
    /\ UNCHANGED <<algorithm, tree, other, ordering>>

\* the fields of Proof and Lemma are public: a holder of a generated proof
\* may overwrite one of them before validation
TamperRootHash(d) ==
    /\ proof # None
    /\ edit = None
    /\ d # proof[1].root_hash
    /\ proof' = Some([proof[1] EXCEPT !.root_hash = d])
    /\ edit' = Some([kind |-> "root_hash", level |-> 0])
    /\ result' = None
    /\ UNCHANGED <<algorithm, tree, needle, lemma, other, ordering>>

TamperNodeHash(k, d) ==
    /\ proof # None
    /\ edit = None
    /\ k <= Depth(proof[1].lemma)
    /\ d # LevelAt(proof[1].lemma, k).node_hash
    /\ proof' = Some([proof[1] EXCEPT !.lemma = WithNodeHash(@, k, d)])
    /\ edit' = Some([kind |-> "node_hash", level |-> k])
    /\ result' = None
    /\ UNCHANGED <<algorithm, tree, needle, lemma, other, ordering>>

TamperSiblingHash(k, d) ==
    /\ proof # None
    /\ edit = None
    /\ k <= Depth(proof[1].lemma)
    /\ LevelAt(proof[1].lemma, k).sibling_hash # None
    /\ d # LevelAt(proof[1].lemma, k).sibling_hash[1].hash
    /\ proof' = Some([proof[1] EXCEPT !.lemma =
            WithSibling(@, k, [LevelAt(@, k).sibling_hash[1] EXCEPT !.hash = d])])
    /\ edit' = Some([kind |-> "sibling_hash", level |-> k])
    /\ result' = None
    /\ UNCHANGED <<algorithm, tree, needle, lemma, other, ordering>>

FlipSibling(k) ==
    /\ proof # None
    /\ edit = None
    /\ k <= Depth(proof[1].lemma)
    /\ LevelAt(proof[1].lemma, k).sibling_hash # None
    /\ proof' = Some([proof[1] EXCEPT !.lemma =
            WithSibling(@, k, Flipped(LevelAt(@, k).sibling_hash[1]))])
    /\ edit' = Some([kind |-> "flip", level |-> k])
    /\ result' = None
    /\ UNCHANGED <<algorithm, tree, needle, lemma, other, ordering>>

Validate(c) ==
    /\ proof # None
    /\ result' = Some([root |-> c, ok |-> validate(proof[1], c)])
    /\ UNCHANGED <<algorithm, tree, needle, lemma, proof, edit, other, ordering>>

Next ==
    \/ \E alg \in Algorithms, values \in ValueSeqs : FromVec(alg, values)
    \/ \E n \in TreeHashes(tree) \cup {hash_empty(algorithm)} : LemmaNewStep(n)
    \/ \E value \in Values : GenProof(value)
    \/ \E d \in TreeHashes(tree) \cup {hash_empty(algorithm)} : TamperRootHash(d)
    \/ \E k \in 0..MaxLeaves, d \in TreeHashes(tree) \cup {hash_empty(algorithm)} :
            TamperNodeHash(k, d)
    \/ \E k \in 0..MaxLeaves, d \in TreeHashes(tree) \cup {hash_empty(algorithm)} :
            TamperSiblingHash(k, d)
    \/ \E k \in 0..MaxLeaves : FlipSibling(k)
    \/ \E c \in ClaimedRoots : Validate(c)

Spec == Init /\ [][Next]_vars

(* --------------- proofs reconstituted from outside data ---------------- *)

InitData ==
    /\ algorithm = 0
    /\ tree = Empty(0)
    /\ needle = None
    /\ lemma = None
    /\ proof = None
    /\ edit = None
    /\ result = None
    /\ other \in {Some(data) : data \in ProofDatas}
    /\ ordering = None

IntoProof(alg) ==
    /\ other # None
    /\ proof' = Some(into_proof(other[1], alg))
    /\ other' = None
    /\ result' = None
    /\ UNCHANGED <<algorithm, tree, needle, lemma, edit, ordering>>

NextData ==
    \/ \E alg \in Algorithms : IntoProof(alg)
    \/ \E c \in ClaimedRoots : Validate(c)

SpecData == InitData /\ [][NextData]_vars

(* ------------------------- comparing two proofs ------------------------ *)

InitOrd ==
    /\ algorithm = 0
    /\ tree = Empty(0)
    /\ needle = None
    /\ lemma = None
    /\ proof \in {Some(p) : p \in OrdProofs}
    /\ edit = None
    /\ result = None
    /\ other \in {Some(q) : q \in OrdProofs}
    /\ ordering = None

Compare ==
    /\ ordering = None
    /\ ordering' = Some([cmp |-> cmp(proof[1], other[1]),
                         eq |-> eq(proof[1], other[1])])
    /\ UNCHANGED <<algorithm, tree, needle, lemma, proof, edit, result, other>>

NextOrd == Compare

SpecOrd == InitOrd /\ [][NextOrd]_vars

(* ======================= properties of the program ===================== *)

RECURSIVE LeafHashes(_)
LeafHashes(t) ==
    CASE t.kind = "Empty" -> {}
      [] t.kind = "Leaf" -> {t.hash}
      [] t.kind = "Node" -> LeafHashes(t.left[1]) \cup LeafHashes(t.right[1])

RECURSIVE LeafValues(_)
LeafValues(t) ==
    CASE t.kind = "Empty" -> {}
      [] t.kind = "Leaf" -> {t.value[1]}
      [] t.kind = "Node" -> LeafValues(t.left[1]) \cup LeafValues(t.right[1])

\* the leaf digests from left to right
RECURSIVE LeafHashSeq(_)
LeafHashSeq(t) ==
    CASE t.kind = "Empty" -> <<>>
      [] t.kind = "Leaf" -> <<t.hash>>
      [] t.kind = "Node" -> LeafHashSeq(t.left[1]) \o LeafHashSeq(t.right[1])

\* the position (from 1) of the leaf a lemma leads to
RECURSIVE ProvedIndex(_, _)
ProvedIndex(t, lem) ==
    IF t.kind # "Node" \/ lem.sub_lemma = None \/ lem.sibling_hash = None
    THEN 1
    ELSE IF lem.sibling_hash[1].pos = 1
         THEN ProvedIndex(t.left[1], lem.sub_lemma[1])
         ELSE Len(LeafHashSeq(t.left[1])) + ProvedIndex(t.right[1], lem.sub_lemma[1])

FirstIndex(hashes, n) ==
    CHOOSE i \in 1..Len(hashes) :
        hashes[i] = n /\ \A j \in 1..(i - 1) : hashes[j] # n

Validated == proof # None /\ result # None

ValidatedAtRoot == Validated /\ result[1].root = tree.hash

Pristine == proof # None /\ edit = None

\* C1: completeness of generate-then-validate.  For every tree meeting the
\* data model (self-paired odd nodes included) and every value v stored in a
\* leaf, Lemma::new(tree, leaf_digest(v)) is Some, the proof built from it
\* exists, and validate(tree root) on that proof returns true.
C1_Complete ==
    /\ \A v \in LeafValues(tree) :
          /\ LemmaNew(tree, hash_leaf(algorithm, v)) # None
          /\ gen_proof(algorithm, tree, v) # None
          /\ validate(gen_proof(algorithm, tree, v)[1], tree.hash)
    /\ (needle # None /\ \E v \in LeafValues(tree) :
                            needle[1] = hash_leaf(algorithm, v))
          => lemma # None
    /\ (Pristine /\ ValidatedAtRoot) => result[1].ok

C1_Witness ==
    /\ tree = from_vec(algorithm, <<0, 1, 0>>)
    /\ Pristine
    /\ ValidatedAtRoot
    /\ proof[1].value = 0
    /\ Depth(proof[1].lemma) = 2
    /\ result[1].ok

\* C2: absence is an empty result.  Lemma::new returns None whenever no leaf
\* of the tree has the needle as its digest: always on the Empty tree, and
\* also when the needle is only the digest of an interior node.
C2_AbsentIsNone ==
    (needle # None /\ needle[1] \notin LeafHashes(tree)) => lemma = None

C2_Witness ==
    /\ tree.kind = "Node"
    /\ needle # None
    /\ needle[1] = tree.left[1].hash
    /\ tree.left[1].kind = "Node"
    /\ lemma = None

DigestEdits == {"root_hash", "sibling_hash", "node_hash"}

\* C3: tamper sensitivity.  A generated proof in which exactly one digest
\* (root_hash, one sibling digest, or one node_hash) was replaced by a
\* different digest is rejected by validate(tree root).
C3_TamperRejected ==
    (ValidatedAtRoot /\ edit # None /\ edit[1].kind \in DigestEdits)
        => ~result[1].ok

C3_Witness ==
    /\ ValidatedAtRoot
    /\ edit # None
    /\ edit[1].kind = "node_hash"
    /\ edit[1].level = 2
    /\ ~result[1].ok

\* the sibling digest and the sub-lemma digest of level k are the same digest
SameOnBothSides(lem, k) ==
    LevelAt(lem, k).sibling_hash[1].hash = LevelAt(lem, k).sub_lemma[1].node_hash

\* C4 (as stated): flipping the Left/Right tag of the sibling at any one
\* interior level of a generated proof makes validate(tree root) return false.
C4_FlipRejected ==
    (ValidatedAtRoot /\ edit # None /\ edit[1].kind = "flip") => ~result[1].ok

\* C4 (amended): flipping the Left/Right tag of the sibling at one interior
\* level of a generated proof makes validate(tree root) return false exactly
\* when the sibling digest of that level differs from the sub-lemma's
\* node_hash; when the two are the same digest the proof still validates.
C4_FlipRejectedUnlessSame ==
    (ValidatedAtRoot /\ edit # None /\ edit[1].kind = "flip")
        => (result[1].ok <=> SameOnBothSides(proof[1].lemma, edit[1].level))

C4_Witness ==
    /\ tree = from_vec(algorithm, <<0, 1, 1>>)
    /\ ValidatedAtRoot
    /\ edit # None
    /\ edit[1].kind = "flip"
    /\ edit[1].level = 1
    /\ ~SameOnBothSides(proof[1].lemma, 1)
    /\ ~result[1].ok

\* what left precedence requires of the lemma lem found for n in t
RECURSIVE LeftFirst(_, _, _)
LeftFirst(t, lem, n) ==
    IF t.kind = "Node"
    THEN /\ lem.sub_lemma # None
         /\ lem.sibling_hash # None
         /\ IF n \in LeafHashes(t.left[1])
            THEN /\ lem.sibling_hash[1] = Right(t.right[1].hash)
                 /\ lem.sub_lemma = LemmaNew(t.left[1], n)
                 /\ LeftFirst(t.left[1], lem.sub_lemma[1], n)
            ELSE /\ lem.sibling_hash[1] = Left(t.left[1].hash)
                 /\ LeftFirst(t.right[1], lem.sub_lemma[1], n)
    ELSE lem.sub_lemma = None /\ lem.node_hash = n

\* C7: left precedence.  At every Node the left subtree is searched first:
\* when the needle is a leaf digest of the left subtree the level carries
\* Right(right.digest) and the left subtree's lemma, also when the needle
\* occurs in the right subtree too; Left(left.digest) appears only when the
\* left subtree lacks the needle.  The proved leaf is the leftmost one.
C7_LeftPrecedence ==
    (needle # None /\ lemma # None)
        => /\ LeftFirst(tree, lemma[1], needle[1])
           /\ ProvedIndex(tree, lemma[1]) = FirstIndex(LeafHashSeq(tree), needle[1])

C7_Witness ==
    /\ tree.kind = "Node"
    /\ needle # None
    /\ lemma # None
    /\ needle[1] \in LeafHashes(tree.left[1]) \cap LeafHashes(tree.right[1])
    /\ tree.left[1].kind = "Node"
    /\ needle[1] \notin LeafHashes(tree.left[1].left[1])
    /\ lemma[1].sibling_hash[1].pos = 1
    /\ lemma[1].sub_lemma[1].sibling_hash[1].pos = 0

RECURSIVE WellShaped(_)
WellShaped(lem) ==
    /\ (lem.sibling_hash = None) <=> (lem.sub_lemma = None)
    /\ lem.sub_lemma # None => WellShaped(lem.sub_lemma[1])

\* C8: lemma shape.  At every level of a lemma returned by Lemma::new,
\* sibling_hash and sub_lemma are both None or both Some.
C8_LemmaShape == lemma # None => WellShaped(lemma[1])

C8_Witness ==
    /\ lemma # None
    /\ Depth(lemma[1]) = 2
    /\ lemma[1].sibling_hash[1].pos = 0
    /\ lemma[1].sub_lemma[1].sibling_hash[1].pos = 1

\* C5: root binding.  validate(c) is false when proof.root_hash # c or when
\* the top lemma's node_hash # c; a true result means both equal c.
C5_RootBinding ==
    (Validated /\ result[1].ok)
        => /\ proof[1].root_hash = result[1].root
           /\ proof[1].lemma.node_hash = result[1].root

C5_Witness ==
    /\ Validated
    /\ proof[1].root_hash = result[1].root
    /\ proof[1].lemma.node_hash # result[1].root
    /\ proof[1].lemma.sub_lemma = None
    /\ proof[1].lemma.sibling_hash = None
    /\ ~result[1].ok

RECURSIVE Malformed(_)
Malformed(lem) ==
    \/ (lem.sibling_hash = None) # (lem.sub_lemma = None)
    \/ lem.sub_lemma # None /\ Malformed(lem.sub_lemma[1])

\* C9: validation re-checks structure.  A proof whose chain has a level with
\* exactly one of sibling_hash / sub_lemma present is rejected for every
\* claimed root, whatever digests it carries.
C9_MalformedRejected ==
    (Validated /\ Malformed(proof[1].lemma)) => ~result[1].ok

C9_Witness ==
    /\ Validated
    /\ proof[1].root_hash = result[1].root
    /\ proof[1].lemma.node_hash = result[1].root
    /\ proof[1].lemma.sibling_hash # None
    /\ proof[1].lemma.sub_lemma # None
    /\ proof[1].lemma.node_hash =
          hash_nodes(proof[1].algorithm, proof[1].lemma.sub_lemma[1].node_hash,
                     proof[1].lemma.sibling_hash[1].hash)
    /\ proof[1].lemma.sibling_hash[1].pos = 1
    /\ proof[1].lemma.sub_lemma[1].sibling_hash # None
    /\ proof[1].lemma.sub_lemma[1].sub_lemma = None
    /\ ~result[1].ok

\* C10: the result of validate does not depend on the value field: proofs
\* that differ only in their value get the same answer for the claimed root.
C10_ValueIgnored ==
    Validated =>
        \A v \in Values :
            validate([proof[1] EXCEPT !.value = v], result[1].root) = result[1].ok

C10_Witness ==
    /\ Validated
    /\ result[1].ok
    /\ proof[1].lemma.sub_lemma = None
    /\ proof[1].lemma.node_hash = hash_leaf(proof[1].algorithm, 0)
    /\ proof[1].value = 1

Reverse(o) == IF o = "Less" THEN "Greater" ELSE IF o = "Greater" THEN "Less" ELSE o

\* the lexicographic order on (root_hash, value, lemma), stated case by case
LexOrder(p, q) ==
    LET r == VecCmp(p.root_hash, q.root_hash)
        v == IntCmp(p.value, q.value)
        l == LemmaCmp(p.lemma, q.lemma)
    IN  CASE r # "Equal" -> r
          [] r = "Equal" /\ v # "Equal" -> v
          [] OTHER -> l

Compared == proof # None /\ other # None /\ ordering # None

\* C6: cmp is the lexicographic order on (root_hash, value, lemma); it is
\* antisymmetric and transitive on the proofs compared; it answers Equal
\* exactly when the proofs are ==, and == holds exactly when root_hash,
\* lemma and value agree, whatever the algorithm fields.
C6_TotalOrder ==
    Compared =>
        LET p == proof[1]
            q == other[1]
        IN  /\ ordering[1].cmp = LexOrder(p, q)
            /\ cmp(q, p) = Reverse(ordering[1].cmp)
            /\ (ordering[1].cmp = "Equal") <=> ordering[1].eq
            /\ ordering[1].eq <=>
                  [p EXCEPT !.algorithm = 0] = [q EXCEPT !.algorithm = 0]
            /\ \A r \in OrdProofs :
                  /\ (ordering[1].cmp = "Less" /\ cmp(q, r) = "Less")
                        => cmp(p, r) = "Less"
                  /\ ordering[1].cmp = "Equal" => cmp(p, r) = cmp(q, r)

C6_Witness ==
    /\ Compared
    /\ proof[1].algorithm # other[1].algorithm
    /\ ordering[1].cmp = "Equal"
    /\ ordering[1].eq
    /\ proof[1].lemma.sub_lemma # None

====
